---------------------------- MODULE Spec2Model ----------------------------
(***************************************************************************)
(* Reference-counting garbage collector of gc_details.h: the PtrDetails    *)
(* record, the per-specialization list refContainer, and the operations of *)
(* Pointer<T, size> (constructors, destructor, the two assignments,        *)
(* collect and shutdown), with the process-exit hook that runs shutdown.   *)
(*                                                                         *)
(* A Pointer object is a slot h of Handles; its template argument size is  *)
(* SizeOf(h), so the slots are partitioned among the specializations and   *)
(* each specialization has its own refContainer and its own first flag.    *)
(* Spec explores the programs that instantiate one specialization, either  *)
(* one; the pointee type T owns no Pointer, so deleting an allocation runs *)
(* no Pointer destructor. SpecSigned explores a specialization with a      *)
(* negative size, SpecBoth two specializations in one program, and         *)
(* SpecNode a pointee type Node that owns a Pointer to Node, so that       *)
(* deleting a Node runs a Pointer destructor and re-enters collect.        *)
(*                                                                         *)
(* refCount is an unsigned 32-bit counter. TLC's integers are 32-bit       *)
(* signed, so a counter is stored as its two's-complement representative:  *)
(* -1 stands for 2^32-1, the value 0 - 1 wraps to. Increment, decrement    *)
(* and the test against 0 are then the plain integer ones.                 *)
(***************************************************************************)
EXTENDS Integers, Sequences, FiniteSets, TLC

\* Number of Pointer objects (slots) of the program.
NumHandles == 4
\* Number of distinct non-null addresses the allocator hands out.
NumAddrs == 2
\* How far below 0 a wrapped refCount is followed (2^32-1 .. 2^32-MaxWrap).
MaxWrap == 1
\* The number of operations of the longest program explored.
MaxOps == 5
\* The size template argument of the array specialization.
ArrayLen == 2

NULL == 0

Handles == 1..NumHandles
\* Addresses a caller can pass: NULL and the allocator's addresses.
Addrs == 0..NumAddrs
\* What the uninitialised member addr can read as: any address, whether the
\* list holds a record for it or not.
AnyAddr == Addrs

\* A negative value of the int template argument size.
NegLen == -1

\* The slots of the Pointer<T, NegLen> objects: as many as a specialization of
\* Handles has at least.
SignedHandles == {-h : h \in 1..(NumHandles \div 2)}

\* The template argument size of slot h: the odd slots are Pointer<T> objects
\* (size = 0), the even ones Pointer<T, ArrayLen> objects, those below 0
\* Pointer<T, NegLen> objects.
SizeOf(h) == IF h < 0 THEN NegLen ELSE IF h % 2 = 1 THEN 0 ELSE ArrayLen
Sizes == {SizeOf(h) : h \in Handles}

\* The slot of the Pointer<Node> member next of the Node allocated at address a,
\* for the pointee type struct Node { Pointer<Node> next; Node() : next(NULL) {} }:
\* an odd slot above Handles. The member lives as long as its Node does.
Member(a) == 2 * (NumHandles + a) - 1
Members == {Member(a) : a \in 1..NumAddrs}

AllHandles == Handles \cup SignedHandles \cup Members
AllSizes == {SizeOf(h) : h \in AllHandles}

VARIABLES
  refContainer,  \* size -> the list of PtrDetails of Pointer<T, size>
  first,         \* size -> the static flag first of Pointer<T, size>
  handles,       \* slot -> [live, addr, isArray, arraySize, indeterminate]
  atexitFns,     \* the functions registered with atexit, oldest first
  phase,         \* "main", "exiting" (exit handlers run) or "crashed"
  last,          \* the operation that ran last, and the deallocate calls it made
  nOps           \* the number of operations the program has run

vars == <<refContainer, first, handles, atexitFns, phase, last, nOps>>

-----------------------------------------------------------------------------
(* PtrDetails *)

\* An unsigned value is stored, as refCount is, as the int that has its 32 bits:
\* the conversion of the int template argument size to unsigned keeps the bits,
\* so the unsigned value of NegLen, 2^32 + NegLen, is stored as NegLen. This is
\* u > 0 for an unsigned u: it is true of every value but 0.
UnsignedPositive(u) == u # 0

\* PtrDetails(T* ptr, unsigned size): the argument is the int template argument
\* converted to unsigned, and size > 0 (line 16) compares the unsigned value.
PtrDetails(ptr, size) ==
  [memPtr |-> ptr, refCount |-> 1, isArray |-> UnsignedPositive(size),
   arraySize |-> size]

upRefCount(d) == [d EXCEPT !.refCount = @ + 1]
downRefCount(d) == [d EXCEPT !.refCount = @ - 1]

\* zeroRefCount off by one: a record with one reference counts as unreferenced.
atMostOneRef(d) == d.refCount = 0 \/ d.refCount = 1

zeroRefCount(d) == d.refCount = 0

-----------------------------------------------------------------------------
(* std::list helpers; an iterator is an index, end() is Len(list) + 1 *)

end(list) == Len(list) + 1

erase(list, p) == SubSeq(list, 1, p - 1) \o SubSeq(list, p + 1, Len(list))

emplace_back(list, ptr, size) == Append(list, PtrDetails(ptr, size))

RECURSIVE findFrom(_, _, _)
findFrom(list, ptr, p) ==
  IF p > Len(list) THEN p
  ELSE IF list[p].memPtr = ptr THEN p
  ELSE findFrom(list, ptr, p + 1)

\* The first record whose memPtr is ptr, or end().
findPtrInfo(list, ptr) == findFrom(list, ptr, 1)

-----------------------------------------------------------------------------
(* Pointer<T, size>::collect, on the list of one specialization *)

\* collect with delete in the place of delete[].
DeleteAlwaysScalar(d) == "scalar"

\* The form of the delete expression collect uses for record d.
DeleteForm(d) == IF d.isArray THEN "array" ELSE "scalar"

\* The loop with p++ after p = erase(p): the record after an erased one is skipped.
RECURSIVE collectLoopSkips(_, _, _)
collectLoopSkips(list, p, calls) ==
  IF p > Len(list)
    THEN [list |-> list, calls |-> calls, memfreed |-> calls # <<>>]
    ELSE IF zeroRefCount(list[p])
      THEN collectLoopSkips(erase(list, p), p + 1,
                            Append(calls, [memPtr |-> list[p].memPtr,
                                           form |-> DeleteForm(list[p])]))
      ELSE collectLoopSkips(list, p + 1, calls)

\* The loop with a return after the first erase: one record is reclaimed a pass.
collectLoopStopsAtFirst(list, p, calls) ==
  IF p > Len(list)
    THEN [list |-> list, calls |-> calls, memfreed |-> calls # <<>>]
    ELSE LET zeros == {i \in p..Len(list) : zeroRefCount(list[i])} IN
         IF zeros = {}
           THEN [list |-> list, calls |-> calls, memfreed |-> calls # <<>>]
           ELSE LET z == CHOOSE i \in zeros : \A j \in zeros : i <= j IN
                [list |-> erase(list, z),
                 calls |-> Append(calls, [memPtr |-> list[z].memPtr,
                                          form |-> DeleteForm(list[z])]),
                 memfreed |-> TRUE]

\* The while loop of collect from iterator p on: a zero-count record is deleted
\* (one deallocate call, appended to calls) and erased, any other is stepped over.
RECURSIVE collectLoop(_, _, _)
collectLoop(list, p, calls) ==
  IF p > Len(list)
    THEN [list |-> list, calls |-> calls, memfreed |-> calls # <<>>]
    ELSE IF zeroRefCount(list[p])
      THEN collectLoop(erase(list, p), p,
                       Append(calls, [memPtr |-> list[p].memPtr,
                                      form |-> DeleteForm(list[p])]))
      ELSE collectLoop(list, p + 1, calls)

collect(list) == collectLoop(list, 1, <<>>)

-----------------------------------------------------------------------------
(* The bodies of the constructors, the destructor and shutdown, as functions
   of the list of the Pointer's specialization *)

\* The constructor with a guard for the null pointer: NULL gets no record.
PointerCtorSkipsNull(list, t, size) ==
  LET p == findPtrInfo(list, t) IN
  IF t = NULL THEN list
  ELSE IF p # end(list)
    THEN [list EXCEPT ![p] = upRefCount(@)]
    ELSE emplace_back(list, t, size)

\* The constructor without the lookup: every Pointer(T*) emplaces a record.
PointerCtorNoFind(list, t, size) == emplace_back(list, t, size)

\* Pointer(T* t), lines 175-188: count one more reference to t, or emplace t.
PointerCtor(list, t, size) ==
  LET p == findPtrInfo(list, t) IN
  IF p # end(list)
    THEN [list EXCEPT ![p] = upRefCount(@)]
    ELSE emplace_back(list, t, size)

\* The destructor without its call of collect().
PointerDtorNoCollect(list, addr) ==
  LET p == findPtrInfo(list, addr) IN
  [list |-> IF p # end(list) THEN [list EXCEPT ![p] = downRefCount(@)] ELSE list,
   calls |-> <<>>, memfreed |-> FALSE]

\* ~Pointer(): p->downRefCount() then collect(). When findPtrInfo returns end()
\* the decrement is undefined behaviour; deref tells whether it lands on a record.
PointerDtor(list, addr) ==
  LET p == findPtrInfo(list, addr) IN
  IF p # end(list)
    THEN collect([list EXCEPT ![p] = downRefCount(@)])
    ELSE collect(list)

\* The copy constructor without p->upRefCount().
PointerCopyCtorNoUp(list, addr) == list

\* Pointer(const Pointer& ob), lines 210-212: count one more reference to
\* ob.addr. At end() the increment is undefined behaviour: it lands on no record.
PointerCopyCtor(list, addr) ==
  LET p == findPtrInfo(list, addr) IN
  IF p # end(list) THEN [list EXCEPT ![p] = upRefCount(@)] ELSE list

\* operator=(T* t) with a collect() after the release, as the destructor has.
PointerAssignRawSweeps(list, addr, t, size) ==
  LET p == findPtrInfo(list, addr)
      released == IF p # end(list)
                    THEN collect([list EXCEPT ![p] = downRefCount(@)]).list
                    ELSE list
      q == findPtrInfo(released, t)
  IN
  IF q = end(released)
    THEN emplace_back(released, t, size)
    ELSE [released EXCEPT ![q] = upRefCount(@)]

\* operator=(T* t) without the second lookup: t always gets a new record.
PointerAssignRawNoFind(list, addr, t, size) ==
  LET p == findPtrInfo(list, addr)
      released == IF p # end(list) THEN [list EXCEPT ![p] = downRefCount(@)] ELSE list
  IN
  emplace_back(released, t, size)

\* operator=(T* t) without the release of the record of addr.
PointerAssignRawNoRelease(list, addr, t, size) ==
  LET q == findPtrInfo(list, t) IN
  IF q = end(list)
    THEN emplace_back(list, t, size)
    ELSE [list EXCEPT ![q] = upRefCount(@)]

\* operator=(T* t), lines 289-306: release addr if it has a record, then count
\* one more reference to t, or emplace t. No collect().
PointerAssignRaw(list, addr, t, size) ==
  LET p == findPtrInfo(list, addr)
      released == IF p # end(list) THEN [list EXCEPT ![p] = downRefCount(@)] ELSE list
      q == findPtrInfo(released, t)
  IN
  IF q = end(released)
    THEN emplace_back(released, t, size)
    ELSE [released EXCEPT ![q] = upRefCount(@)]

\* operator=(Pointer& rv) with a collect() after the release, as the destructor has.
PointerAssignSweeps(list, addr, rvAddr) ==
  LET p == findPtrInfo(list, addr)
      released == IF p # end(list)
                    THEN collect([list EXCEPT ![p] = downRefCount(@)]).list
                    ELSE list
      q == findPtrInfo(released, rvAddr)
  IN
  IF q # end(released) THEN [released EXCEPT ![q] = upRefCount(@)] ELSE released

\* operator=(Pointer& rv) without the p->upRefCount() on the record of rv.addr.
PointerAssignNoUp(list, addr, rvAddr) ==
  LET p == findPtrInfo(list, addr) IN
  IF p # end(list) THEN [list EXCEPT ![p] = downRefCount(@)] ELSE list

\* operator=(Pointer& rv), lines 327-334, when the addresses differ: release
\* addr, count one more reference to rv.addr. Either iterator may be end(); the
\* decrement or increment through it is undefined behaviour and lands on no record.
PointerAssign(list, addr, rvAddr) ==
  LET p == findPtrInfo(list, addr)
      released == IF p # end(list) THEN [list EXCEPT ![p] = downRefCount(@)] ELSE list
      q == findPtrInfo(released, rvAddr)
  IN
  IF q # end(released) THEN [released EXCEPT ![q] = upRefCount(@)] ELSE released

\* shutdown() without the loop that sets every refCount to 0.
shutdownKeepsCounts(list) == collect(list)

\* shutdown(): nothing on an empty list, else every refCount := 0, then collect().
shutdown(list) ==
  IF Len(list) = 0
    THEN [list |-> list, calls |-> <<>>, memfreed |-> FALSE]
    ELSE collect([i \in 1..Len(list) |-> [list[i] EXCEPT !.refCount = 0]])

-----------------------------------------------------------------------------
(* State *)

\* A slot that holds no Pointer object.
NoPointer ==
  [live |-> FALSE, addr |-> NULL, isArray |-> FALSE, arraySize |-> 0,
   indeterminate |-> FALSE]

\* The members a Pointer<T, size> sets when it points at t (lines 190-198,
\* 308-310): size > 0 compares the int template argument, arraySize = size
\* converts it to unsigned.
PointerTo(t, size) ==
  [live |-> TRUE, addr |-> t, isArray |-> (size > 0), arraySize |-> size,
   indeterminate |-> FALSE]

\* A Pointer whose members no constructor assigned. addr reads as a: findPtrInfo
\* compares it, so its bits are fixed when the object comes to be. isArray and
\* arraySize are read by begin() and end() alone; indeterminate says that the two
\* fields here are no values, and that a read of them may yield anything.
Uninitialised(a) ==
  [live |-> TRUE, addr |-> a, isArray |-> FALSE, arraySize |-> 0,
   indeterminate |-> TRUE]

\* The record of the operation that ran last: its name, the slot and the address
\* argument, the deallocate calls it made in order, the address it emplaced a
\* record for (as a set), whether it dereferenced end(), and what it returned.
Ran(op, h, size, t, calls, emplaced, ub, ret, memfreed) ==
  [op |-> op, h |-> h, size |-> size, t |-> t, calls |-> calls,
   emplaced |-> emplaced, ub |-> ub, ret |-> ret, memfreed |-> memfreed]

\* A refCount that wrapped below 0 is followed MaxWrap steps down.
Bounded(list) == \A i \in 1..Len(list) : list[i].refCount >= -MaxWrap

Running == phase # "crashed"

Init ==
  /\ refContainer = [s \in AllSizes |-> <<>>]
  /\ first = [s \in AllSizes |-> TRUE]
  /\ handles = [h \in AllHandles |-> NoPointer]
  /\ atexitFns = <<>>
  /\ phase = "main"
  /\ nOps = 0
  /\ last = Ran("none", 0, 0, NULL, <<>>, {}, FALSE, NULL, FALSE)

\* The constructor without first = false: every Pointer(T*) registers shutdown.
RegisterAtExitAgain(s) ==
  /\ atexitFns' = IF first[s] THEN Append(atexitFns, s) ELSE atexitFns
  /\ first' = first

\* Lines 164-171: the first Pointer(T*) of a specialization registers shutdown.
RegisterAtExit(s) ==
  /\ atexitFns' = IF first[s] THEN Append(atexitFns, s) ELSE atexitFns
  /\ first' = [first EXCEPT ![s] = FALSE]

\* The process dies on a dereference of end().
Crash(op, h, t) ==
  /\ phase' = "crashed"
  /\ last' = Ran("crash", h, SizeOf(h), t, <<>>, {}, TRUE, NULL, FALSE)
  /\ UNCHANGED <<refContainer, first, handles, atexitFns>>

-----------------------------------------------------------------------------
(* Operations *)

\* Pointer<T, size> h(t);
Construct(h, t) ==
  LET s == SizeOf(h)
      list == refContainer[s]
      new == PointerCtor(list, t, s)
  IN
  /\ Running
  /\ ~handles[h].live
  /\ RegisterAtExit(s)
  /\ refContainer' = [refContainer EXCEPT ![s] = new]
  /\ handles' = [handles EXCEPT ![h] = PointerTo(t, s)]
  /\ last' = Ran("construct", h, s, t, <<>>,
                 IF findPtrInfo(list, t) = end(list) THEN {t} ELSE {},
                 FALSE, NULL, FALSE)
  /\ UNCHANGED phase

\* Pointer<T, size> h;  The body constructs and destroys a temporary Pointer(NULL)
\* and leaves the members of h itself uninitialised: addr reads as some a.
DefaultConstruct(h, a) ==
  LET s == SizeOf(h)
      list == refContainer[s]
      tmp == PointerCtor(list, NULL, s)
      c == PointerDtor(tmp, NULL)
  IN
  /\ Running
  /\ ~handles[h].live
  /\ Bounded(c.list)
  /\ RegisterAtExit(s)
  /\ refContainer' = [refContainer EXCEPT ![s] = c.list]
  /\ handles' = [handles EXCEPT ![h] = Uninitialised(a)]
  /\ last' = Ran("default", h, s, NULL, c.calls,
                 IF findPtrInfo(list, NULL) = end(list) THEN {NULL} ELSE {},
                 FALSE, NULL, FALSE)
  /\ UNCHANGED phase

\* Pointer<T, size> h(ob);
CopyConstruct(h, ob) ==
  LET s == SizeOf(h)
      list == refContainer[s]
      ub == findPtrInfo(list, handles[ob].addr) = end(list)
  IN
  /\ Running
  /\ ~handles[h].live
  /\ handles[ob].live
  /\ SizeOf(ob) = s
  /\ \/ /\ ub
        /\ Crash("copy", h, handles[ob].addr)
     \/ /\ refContainer' = [refContainer EXCEPT ![s] =
                              PointerCopyCtor(list, handles[ob].addr)]
        /\ handles' = [handles EXCEPT ![h] = handles[ob]]
        /\ last' = Ran("copy", h, s, handles[ob].addr, <<>>, {}, ub, NULL, FALSE)
        /\ UNCHANGED <<first, atexitFns, phase>>

\* The destructor with collect() run on the list of every specialization.
DestructSweepsAll(h) ==
  LET s == SizeOf(h)
      list == refContainer[s]
      c == PointerDtor(list, handles[h].addr)
  IN
  /\ Running
  /\ handles[h].live
  /\ findPtrInfo(list, handles[h].addr) # end(list)
  /\ Bounded(c.list)
  /\ refContainer' = [r \in AllSizes |->
                        IF r = s THEN c.list ELSE collect(refContainer[r]).list]
  /\ handles' = [handles EXCEPT ![h] = NoPointer]
  /\ last' = Ran("destruct", h, s, handles[h].addr, c.calls, {}, FALSE, NULL, c.memfreed)
  /\ UNCHANGED <<first, atexitFns, phase>>

\* h goes out of scope (or is deleted).
Destruct(h) ==
  LET s == SizeOf(h)
      list == refContainer[s]
      ub == findPtrInfo(list, handles[h].addr) = end(list)
      c == PointerDtor(list, handles[h].addr)
  IN
  /\ Running
  /\ handles[h].live
  /\ \/ /\ ub
        /\ Crash("destruct", h, handles[h].addr)
     \/ /\ Bounded(c.list)
        /\ refContainer' = [refContainer EXCEPT ![s] = c.list]
        /\ handles' = [handles EXCEPT ![h] = NoPointer]
        /\ last' = Ran("destruct", h, s, handles[h].addr, c.calls, {}, ub, NULL, c.memfreed)
        /\ UNCHANGED <<first, atexitFns, phase>>

\* Pointer<T, size>::collect();
Collect(s) ==
  LET c == collect(refContainer[s]) IN
  /\ Running
  /\ refContainer' = [refContainer EXCEPT ![s] = c.list]
  /\ last' = Ran("collect", 0, s, NULL, c.calls, {}, FALSE, NULL, c.memfreed)
  /\ UNCHANGED <<first, handles, atexitFns, phase>>

\* h = t;
AssignRaw(h, t) ==
  LET s == SizeOf(h)
      list == refContainer[s]
      new == PointerAssignRaw(list, handles[h].addr, t, s)
  IN
  /\ Running
  /\ handles[h].live
  /\ Bounded(new)
  /\ refContainer' = [refContainer EXCEPT ![s] = new]
  /\ handles' = [handles EXCEPT ![h] = PointerTo(t, s)]
  /\ last' = Ran("assignRaw", h, s, t, <<>>,
                 IF findPtrInfo(list, t) = end(list) THEN {t} ELSE {}, FALSE, t, FALSE)
  /\ UNCHANGED <<first, atexitFns, phase>>

\* h = rv;  *this != rv compares the two addresses (both sides convert to T*).
AssignHandle(h, rv) ==
  LET s == SizeOf(h)
      list == refContainer[s]
      new == PointerAssign(list, handles[h].addr, handles[rv].addr)
      ub == \/ findPtrInfo(list, handles[h].addr) = end(list)
            \/ findPtrInfo(list, handles[rv].addr) = end(list)
  IN
  /\ Running
  /\ handles[h].live
  /\ handles[rv].live
  /\ SizeOf(rv) = s
  /\ IF handles[h].addr = handles[rv].addr
       THEN /\ last' = Ran("assignHandle", h, s, handles[rv].addr, <<>>, {}, FALSE, NULL, FALSE)
            /\ UNCHANGED <<refContainer, first, handles, atexitFns, phase>>
       ELSE \/ /\ ub
               /\ Crash("assignHandle", h, handles[rv].addr)
            \/ /\ Bounded(new)
               /\ refContainer' = [refContainer EXCEPT ![s] = new]
               /\ handles' = [handles EXCEPT ![h] = handles[rv]]
               /\ last' = Ran("assignHandle", h, s, handles[rv].addr, <<>>, {}, ub, NULL, FALSE)
               /\ UNCHANGED <<first, atexitFns, phase>>

\* main returns, or exit() is called: the exit handlers start to run.
Exit ==
  /\ phase = "main"
  /\ phase' = "exiting"
  /\ last' = Ran("exit", 0, 0, NULL, <<>>, {}, FALSE, NULL, FALSE)
  /\ UNCHANGED <<refContainer, first, handles, atexitFns>>

\* The exit handlers run in the reverse order of their registration; each one
\* registered by a Pointer constructor is the shutdown of its specialization.
RunAtExit ==
  /\ phase = "exiting"
  /\ atexitFns # <<>>
  /\ LET s == atexitFns[Len(atexitFns)]
         c == shutdown(refContainer[s])
     IN
     /\ refContainer' = [refContainer EXCEPT ![s] = c.list]
     /\ last' = Ran("shutdown", 0, s, NULL, c.calls, {}, FALSE, NULL, c.memfreed)
  /\ atexitFns' = SubSeq(atexitFns, 1, Len(atexitFns) - 1)
  /\ UNCHANGED <<first, handles, phase>>

-----------------------------------------------------------------------------
(* The programs explored *)

\* The program instantiates no other specialization than that of slot h.
OneSpecialization(h) == \A s \in AllSizes \ {SizeOf(h)} : first[s]

\* Slots of one specialization that hold no object are alike: a new Pointer
\* takes the lowest one.
LowestFree(h) ==
  \A g \in AllHandles : (g < h /\ SizeOf(g) = SizeOf(h)) => handles[g].live

\* The addresses some record or some live Pointer holds.
InUse ==
  UNION {{refContainer[s][i].memPtr : i \in 1..Len(refContainer[s])} : s \in AllSizes}
    \cup {handles[h].addr : h \in {g \in AllHandles : handles[g].live}}

\* Non-null addresses that nothing holds are alike: the next one to appear, as
\* an argument or as the bits of an uninitialised addr, is the lowest of them.
Nameable(t) == t = NULL \/ t \in InUse \/ \A u \in 1..(t - 1) : u \in InUse

\* One more operation of a program of at most MaxOps operations.
Budget == nOps < MaxOps /\ nOps' = nOps + 1

Next ==
  \/ \E h \in Handles, t \in Addrs :
       /\ Budget /\ OneSpecialization(h) /\ LowestFree(h) /\ Nameable(t)
       /\ Construct(h, t)
  \/ \E h \in Handles, a \in AnyAddr :
       /\ Budget /\ OneSpecialization(h) /\ LowestFree(h) /\ Nameable(a)
       /\ DefaultConstruct(h, a)
  \/ \E h, ob \in Handles : Budget /\ LowestFree(h) /\ CopyConstruct(h, ob)
  \/ \E h \in Handles : Budget /\ Destruct(h)
  \/ \E s \in Sizes : Budget /\ Collect(s)
  \/ \E h \in Handles, t \in Addrs : Budget /\ Nameable(t) /\ AssignRaw(h, t)
  \/ \E h, rv \in Handles : Budget /\ AssignHandle(h, rv)
  \/ Budget /\ Exit
  \/ Budget /\ RunAtExit

Spec == Init /\ [][Next]_vars

\* The programs that instantiate Pointer<T, NegLen> and no other specialization.
NextSigned ==
  \/ \E h \in SignedHandles, t \in Addrs :
       Budget /\ LowestFree(h) /\ Nameable(t) /\ Construct(h, t)
  \/ \E h \in SignedHandles, a \in AnyAddr :
       Budget /\ LowestFree(h) /\ Nameable(a) /\ DefaultConstruct(h, a)
  \/ \E h, ob \in SignedHandles : Budget /\ LowestFree(h) /\ CopyConstruct(h, ob)
  \/ \E h \in SignedHandles : Budget /\ Destruct(h)
  \/ Budget /\ Collect(NegLen)
  \/ \E h \in SignedHandles, t \in Addrs : Budget /\ Nameable(t) /\ AssignRaw(h, t)
  \/ \E h, rv \in SignedHandles : Budget /\ AssignHandle(h, rv)
  \/ Budget /\ Exit
  \/ Budget /\ RunAtExit

SpecSigned == Init /\ [][NextSigned]_vars

\* One more operation of a program one operation shorter than the longest.
ShortBudget == nOps + 1 < MaxOps /\ nOps' = nOps + 1

\* The programs that instantiate Pointer<T> and Pointer<T, ArrayLen>, with
\* objects of both alive together.
NextBoth ==
  \/ \E h \in Handles, t \in Addrs :
       ShortBudget /\ LowestFree(h) /\ Nameable(t) /\ Construct(h, t)
  \/ \E h \in Handles, a \in AnyAddr :
       ShortBudget /\ LowestFree(h) /\ Nameable(a) /\ DefaultConstruct(h, a)
  \/ \E h, ob \in Handles : ShortBudget /\ LowestFree(h) /\ CopyConstruct(h, ob)
  \/ \E h \in Handles : ShortBudget /\ Destruct(h)
  \/ \E s \in Sizes : ShortBudget /\ Collect(s)
  \/ \E h \in Handles, t \in Addrs : ShortBudget /\ Nameable(t) /\ AssignRaw(h, t)
  \/ \E h, rv \in Handles : ShortBudget /\ AssignHandle(h, rv)
  \/ ShortBudget /\ Exit
  \/ ShortBudget /\ RunAtExit

SpecBoth == Init /\ [][NextBoth]_vars

-----------------------------------------------------------------------------
(* The pointee type that owns a Pointer *)

\* T = Node, with struct Node { Pointer<Node> next; Node() : next(NULL) {} }.
\* new Node runs the constructor from an address on the member next; delete of
\* a Node runs ~Node, which runs ~Pointer on next, which runs collect() inside
\* the collect() that called delete.

\* A Node is allocated at address a and not yet deleted.
Alive(a) == a \in 1..NumAddrs /\ handles[Member(a)].live

\* The address new Node returns: one that holds no Node and that no record and
\* no Pointer holds; such addresses are alike, so new takes the lowest.
FreshNode(t) ==
  /\ t \in 1..NumAddrs
  /\ ~Alive(t)
  /\ t \notin InUse
  /\ \A u \in 1..(t - 1) : Alive(u) \/ u \in InUse

\* The list of Pointer<Node>, the Pointer objects, the deallocate calls made so
\* far, whether end() was dereferenced, whether the process died, and the Nodes
\* whose delete expression is being evaluated, as an operation starts.
Machine ==
  [list |-> refContainer[0], hs |-> handles, calls |-> <<>>, ub |-> FALSE,
   dead |-> FALSE, deleting |-> {}]

RECURSIVE nodeSweep(_, _, _)
RECURSIVE nodeDelete(_, _, _)
RECURSIVE nodeDtor(_, _, _)

\* ~Pointer() of a Pointer<Node> whose addr is addr (lines 226-233), in m. A
\* decrement through end() either goes unnoticed (quiet) or kills the process.
nodeDtor(m, addr, quiet) ==
  LET p == findPtrInfo(m.list, addr) IN
  IF p # end(m.list)
    THEN nodeSweep([m EXCEPT !.list[p] = downRefCount(@)], 1, quiet)
    ELSE IF quiet
      THEN nodeSweep([m EXCEPT !.ub = TRUE], 1, quiet)
      ELSE [m EXCEPT !.ub = TRUE, !.dead = TRUE]

\* delete d.memPtr or delete[] d.memPtr (lines 258-263) for record d, in m: one
\* deallocate call. For a null pointer it does nothing more. For a Node it runs
\* the destructor of the member next and then ends the life of the Node. For a
\* Node whose delete is being evaluated up the stack it is a second delete of
\* the object: its destructor runs collect() again, which finds the same record
\* again, and the recursion ends with the stack: the process dies.
nodeDelete(m, d, quiet) ==
  LET a == d.memPtr
      called == [m EXCEPT !.calls = Append(@, [memPtr |-> a, form |-> DeleteForm(d)])]
  IN
  IF a = NULL THEN called
  ELSE IF a \in m.deleting \/ ~m.hs[Member(a)].live
    THEN [called EXCEPT !.dead = TRUE]
    ELSE LET r == nodeDtor([called EXCEPT !.deleting = @ \cup {a}],
                           m.hs[Member(a)].addr, quiet)
         IN
         IF r.dead THEN r
         ELSE [r EXCEPT !.hs[Member(a)] = NoPointer, !.deleting = @ \ {a}]

\* The while loop of collect() (lines 252-274) from iterator p on, in m, for
\* T = Node. The delete may run collect() again and erase other records; the
\* iterator p stays at its record, which erase(p) then removes.
nodeSweep(m, p, quiet) ==
  IF m.dead \/ p > Len(m.list) THEN m
  ELSE IF zeroRefCount(m.list[p])
    THEN LET r == nodeDelete(m, m.list[p], quiet)
             q == findPtrInfo(r.list, m.list[p].memPtr)
         IN
         IF r.dead THEN r
         ELSE nodeSweep([r EXCEPT !.list = erase(@, q)], q, quiet)
    ELSE nodeSweep(m, p + 1, quiet)

\* new Node at address a, in m: the constructor of Node runs Pointer(NULL) on
\* the member next (lines 175-198).
nodeNew(m, a) ==
  [m EXCEPT !.list = PointerCtor(@, NULL, 0), !.hs[Member(a)] = PointerTo(NULL, 0)]

\* The process died inside the operation of h: the state it died in.
Died(h, t, m) ==
  /\ phase' = "crashed"
  /\ refContainer' = [refContainer EXCEPT ![0] = m.list]
  /\ handles' = m.hs
  /\ last' = Ran("crash", h, 0, t, m.calls, {}, m.ub, NULL, FALSE)

\* The operation went through: the list and the Pointers it leaves.
Done(m) ==
  /\ Bounded(m.list)
  /\ refContainer' = [refContainer EXCEPT ![0] = m.list]
  /\ handles' = m.hs
  /\ UNCHANGED phase

\* Pointer<Node> h(t); for t null or the address of a Node, and
\* Pointer<Node> h(new Node); for a fresh t.
NodeConstruct(h, t) ==
  LET fresh == FreshNode(t)
      m == IF fresh THEN nodeNew(Machine, t) ELSE Machine
      new == [m EXCEPT !.list = PointerCtor(@, t, 0), !.hs[h] = PointerTo(t, 0)]
  IN
  /\ Running
  /\ ~handles[h].live
  /\ t = NULL \/ Alive(t) \/ fresh
  /\ RegisterAtExit(0)
  /\ Done(new)
  /\ last' = Ran("construct", h, 0, t, <<>>,
                 IF findPtrInfo(m.list, t) = end(m.list) THEN {t} ELSE {},
                 FALSE, NULL, FALSE)

\* Pointer<Node> h;  The temporary Pointer(NULL) is built and destroyed, and the
\* members of h stay uninitialised: addr reads as a.
NodeDefaultConstruct(h, a, quiet) ==
  LET m == nodeDtor([Machine EXCEPT !.list = PointerCtor(@, NULL, 0)], NULL, quiet)
      new == [m EXCEPT !.hs[h] = Uninitialised(a)]
  IN
  /\ Running
  /\ ~handles[h].live
  /\ quiet \/ m.ub
  /\ RegisterAtExit(0)
  /\ IF m.dead
       THEN Died(h, NULL, m)
       ELSE /\ Done(new)
            /\ last' = Ran("default", h, 0, NULL, m.calls,
                           IF findPtrInfo(refContainer[0], NULL) = end(refContainer[0])
                             THEN {NULL} ELSE {},
                           m.ub, NULL, FALSE)

\* h = t; for t null or the address of a Node, and h = new Node; for a fresh t.
NodeAssignRaw(h, t) ==
  LET fresh == FreshNode(t)
      m == IF fresh THEN nodeNew(Machine, t) ELSE Machine
      new == [m EXCEPT !.list = PointerAssignRaw(@, handles[h].addr, t, 0),
                       !.hs[h] = PointerTo(t, 0)]
  IN
  /\ Running
  /\ handles[h].live
  /\ t = NULL \/ Alive(t) \/ fresh
  /\ IF fresh THEN RegisterAtExit(0) ELSE UNCHANGED <<first, atexitFns>>
  /\ Done(new)
  /\ last' = Ran("assignRaw", h, 0, t, <<>>,
                 IF findPtrInfo(m.list, t) = end(m.list) THEN {t} ELSE {},
                 FALSE, t, FALSE)

\* A Pointer<Node> h that is no member of a Node goes out of scope. quiet is
\* the outcome of a dereference of end(), for the runs that make one.
NodeDestruct(h, quiet) ==
  LET m == nodeDtor(Machine, handles[h].addr, quiet)
      new == [m EXCEPT !.hs[h] = NoPointer]
  IN
  /\ Running
  /\ handles[h].live
  /\ quiet \/ m.ub
  /\ UNCHANGED <<first, atexitFns>>
  /\ IF m.dead
       THEN Died(h, handles[h].addr, m)
       ELSE /\ Done(new)
            /\ last' = Ran("destruct", h, 0, handles[h].addr, m.calls, {}, m.ub,
                           NULL, m.calls # <<>>)

\* Pointer<Node>::collect();
NodeCollect(quiet) ==
  LET m == nodeSweep(Machine, 1, quiet) IN
  /\ Running
  /\ quiet \/ m.ub
  /\ UNCHANGED <<first, atexitFns>>
  /\ IF m.dead
       THEN Died(0, NULL, m)
       ELSE /\ Done(m)
            /\ last' = Ran("collect", 0, 0, NULL, m.calls, {}, m.ub, NULL,
                           m.calls # <<>>)

\* The exit handler of Pointer<Node> runs: shutdown() (lines 376-385).
NodeRunAtExit(quiet) ==
  LET list == refContainer[0]
      zeroed == [i \in 1..Len(list) |-> [list[i] EXCEPT !.refCount = 0]]
      m == IF Len(list) = 0 THEN Machine
           ELSE nodeSweep([Machine EXCEPT !.list = zeroed], 1, quiet)
  IN
  /\ phase = "exiting"
  /\ atexitFns # <<>>
  /\ atexitFns[Len(atexitFns)] = 0
  /\ quiet \/ m.ub
  /\ atexitFns' = SubSeq(atexitFns, 1, Len(atexitFns) - 1)
  /\ UNCHANGED first
  /\ IF m.dead
       THEN Died(0, NULL, m)
       ELSE /\ Done(m)
            /\ last' = Ran("shutdown", 0, 0, NULL, m.calls, {}, m.ub, NULL,
                           m.calls # <<>>)

\* The Pointer<Node> objects that are no members of Nodes.
NodeHandles == {h \in Handles : SizeOf(h) = 0}

\* The Pointer<Node> objects a statement can name: those and the members of the
\* Nodes that are allocated.
Reachable == NodeHandles \cup {Member(a) : a \in {b \in 1..NumAddrs : Alive(b)}}

\* The programs over Pointer<Node>, one operation shorter than the longest.
NextNode ==
  \/ \E h \in NodeHandles, t \in Addrs :
       ShortBudget /\ LowestFree(h) /\ NodeConstruct(h, t)
  \/ \E h \in NodeHandles, a \in AnyAddr, quiet \in BOOLEAN :
       ShortBudget /\ LowestFree(h) /\ Nameable(a) /\ NodeDefaultConstruct(h, a, quiet)
  \/ \E h \in NodeHandles, ob \in Reachable :
       ShortBudget /\ LowestFree(h) /\ CopyConstruct(h, ob)
  \/ \E h \in NodeHandles, quiet \in BOOLEAN : ShortBudget /\ NodeDestruct(h, quiet)
  \/ \E quiet \in BOOLEAN : ShortBudget /\ NodeCollect(quiet)
  \/ \E h \in Reachable, t \in Addrs : ShortBudget /\ NodeAssignRaw(h, t)
  \/ \E h, rv \in Reachable : ShortBudget /\ AssignHandle(h, rv)
  \/ ShortBudget /\ Exit
  \/ \E quiet \in BOOLEAN : ShortBudget /\ NodeRunAtExit(quiet)

SpecNode == Init /\ [][NextNode]_vars

-----------------------------------------------------------------------------
(* Vocabulary of the properties *)

\* The number of records of list whose memPtr is a.
Count(list, a) == Cardinality({i \in 1..Len(list) : list[i].memPtr = a})

\* The refCount of the record findPtrInfo finds for a (a has one).
RefOf(list, a) == list[findPtrInfo(list, a)].refCount

\* The number of deallocate calls among calls whose argument is a.
CallsFor(calls, a) == Cardinality({i \in 1..Len(calls) : calls[i].memPtr = a})

\* The live Pointers of specialization s whose addr is a.
Holders(s, a) ==
  {h \in Handles : handles[h].live /\ SizeOf(h) = s /\ handles[h].addr = a}

\* shutdown of specialization s has run.
TornDown(s) ==
  /\ phase = "exiting"
  /\ ~first[s]
  /\ \A i \in 1..Len(atexitFns) : atexitFns[i] # s

\* The operations that run collect().
SweepOps == {"destruct", "default", "collect", "shutdown"}

-----------------------------------------------------------------------------
(* C1 *)

\* C1: before teardown and after every completed operation, the refCount of each
\* record equals the number of live Pointers of the specialization whose addr is
\* the record's memPtr (so a record no live Pointer holds has refCount 0).
C1_RefCountIsLiveHolders ==
  \A s \in Sizes :
    (/\ Running
     /\ ~TornDown(s)
     /\ last.op \in {"construct", "copy", "assignRaw", "assignHandle", "destruct", "collect"}
     /\ ~last.ub) =>
      \A i \in 1..Len(refContainer[s]) :
        refContainer[s][i].refCount
          = Cardinality(Holders(s, refContainer[s][i].memPtr))

-----------------------------------------------------------------------------
(* C2 *)

\* The records of address a that leave list s in a step: those there before and
\* the one the step emplaced, less those there after.
Removed(s, a) ==
  Count(refContainer[s], a)
    + (IF last'.size = s /\ a \in last'.emplaced THEN 1 ELSE 0)
    - Count(refContainer'[s], a)

\* The isArray flag of the records of address a that a step can remove from list s.
FlagsOf(s, a) ==
  {refContainer[s][i].isArray :
     i \in {j \in 1..Len(refContainer[s]) : refContainer[s][j].memPtr = a}}
    \cup (IF a \in last'.emplaced THEN {PtrDetails(a, s).isArray} ELSE {})

\* C2: in every step, the deallocate calls made are exactly the records that
\* leave a list, one call per record, made by an operation that runs collect, in
\* the array form iff the record's isArray is true.
C2_DeallocateOncePerRecord ==
  [][\A s \in Sizes, a \in Addrs :
       LET calls == IF last'.size = s THEN last'.calls ELSE <<>> IN
       /\ CallsFor(calls, a) = Removed(s, a)
       /\ Removed(s, a) > 0 => last'.op \in SweepOps
       /\ \A i \in 1..Len(calls) :
            calls[i].memPtr = a =>
              \A f \in FlagsOf(s, a) : (calls[i].form = "array") <=> f
     ]_vars

\* A sweep has removed an array record with one delete[] and nothing else.
C2_Witness ==
  /\ last.op = "destruct"
  /\ Len(last.calls) = 1
  /\ last.calls[1].form = "array"
  /\ Count(refContainer[last.size], last.calls[1].memPtr) = 0
  /\ last.calls[1].memPtr # NULL

-----------------------------------------------------------------------------
(* Destruction, as C3, C4 and C5 speak of it *)

\* Slot h holds a Pointer whose members a constructor or an assignment set.
Registered(h) == handles[h].live /\ ~handles[h].indeterminate

\* The step is the destruction of h.
Destroys(h) == handles[h].live /\ last'.op = "destruct" /\ last'.h = h

\* A step that destroys the one Pointer counted for its address removes the
\* record of the address and deallocates the address once, in the record's form.
DestructFrees(h) ==
  LET s == SizeOf(h)
      a == handles[h].addr
  IN
  (/\ Destroys(h)
   /\ Registered(h)
   /\ Holders(s, a) = {h}
   /\ Count(refContainer[s], a) = 1
   /\ RefOf(refContainer[s], a) = 1)
  => /\ Count(refContainer'[s], a) = 0
     /\ CallsFor(last'.calls, a) = 1
     /\ ~handles'[h].live

\* A step that destroys one of several Pointers counted for an address takes one
\* from the count, keeps the record and does not deallocate the address.
DestructKeeps(h) ==
  LET s == SizeOf(h)
      a == handles[h].addr
  IN
  (/\ Destroys(h)
   /\ Cardinality(Holders(s, a)) >= 2
   /\ Count(refContainer[s], a) = 1
   /\ RefOf(refContainer[s], a) = Cardinality(Holders(s, a)))
  => /\ Count(refContainer'[s], a) = 1
     /\ RefOf(refContainer'[s], a) = RefOf(refContainer[s], a) - 1
     /\ CallsFor(last'.calls, a) = 0

-----------------------------------------------------------------------------
(* C3 *)

\* C3: when a Pointer constructed over address A is the only one that references
\* A (A's record counts it and nothing else), destroying it removes A's record
\* and deallocates A before the destructor returns.
C3_SoleHolderDestructFrees == [][\A h \in Handles : DestructFrees(h)]_vars

\* The destructor of the only Pointer of a non-null address has returned: the
\* address was deleted once and has no record.
C3_Witness ==
  /\ last.op = "destruct"
  /\ ~last.ub
  /\ last.t # NULL
  /\ last.calls = <<[memPtr |-> last.t, form |-> "scalar"]>>
  /\ Count(refContainer[last.size], last.t) = 0
  /\ Holders(last.size, last.t) = {}

-----------------------------------------------------------------------------
(* C4 *)

\* A step that constructs h over the address of one other Pointer, itself set
\* by a constructor or an assignment and counted once, leaves one record of the
\* address, with refCount 2.
ConstructShares(h) ==
  LET s == SizeOf(h)
      a == last'.t
  IN
  (/\ ~handles[h].live
   /\ last'.op = "construct"
   /\ last'.h = h
   /\ \E g \in Handles \ {h} : Registered(g) /\ Holders(s, a) = {g}
   /\ Count(refContainer[s], a) = 1
   /\ RefOf(refContainer[s], a) = 1)
  => /\ Count(refContainer'[s], a) = 1
     /\ RefOf(refContainer'[s], a) = 2

\* C4: two Pointers constructed independently over one address A share a single
\* record of A with refCount 2; destroying the two, in either order, deallocates
\* A once: the first destruction keeps the record, the second removes it.
C4_IndependentConstructsShare ==
  [][\A h \in Handles : ConstructShares(h) /\ DestructKeeps(h) /\ DestructFrees(h)]_vars

\* The second of two independent constructors over a non-null address has run.
C4_Witness ==
  /\ last.op = "construct"
  /\ last.t # NULL
  /\ last.emplaced = {}
  /\ Count(refContainer[last.size], last.t) = 1
  /\ RefOf(refContainer[last.size], last.t) = 2
  /\ Cardinality(Holders(last.size, last.t)) = 2
  /\ \A h \in Holders(last.size, last.t) : Registered(h)

-----------------------------------------------------------------------------
(* C5 *)

\* A step that copy-constructs h from a Pointer whose address has a record adds
\* one to that record's refCount and adds no record.
CopyShares(h) ==
  LET s == SizeOf(h)
      a == last'.t
  IN
  (/\ ~handles[h].live
   /\ last'.op = "copy"
   /\ last'.h = h
   /\ Count(refContainer[s], a) = 1)
  => /\ Count(refContainer'[s], a) = 1
     /\ RefOf(refContainer'[s], a) = RefOf(refContainer[s], a) + 1
     /\ Len(refContainer'[s]) = Len(refContainer[s])
     /\ handles'[h].addr = a

\* C5: copy-constructing from a Pointer at P adds one to the refCount of P's
\* record and creates no record; destroying a Pointer at P while another is
\* counted for P only takes one from the count, without deallocation; destroying
\* the last one removes the record with one deallocation of P.
C5_CopySharesRecord ==
  [][\A h \in Handles : CopyShares(h) /\ DestructKeeps(h) /\ DestructFrees(h)]_vars

\* A copy of a Pointer at a non-null address has been destroyed while the
\* original lives: the record is back at refCount 1 and nothing was deleted.
C5_Witness ==
  /\ last.op = "destruct"
  /\ last.t # NULL
  /\ last.calls = <<>>
  /\ Count(refContainer[last.size], last.t) = 1
  /\ RefOf(refContainer[last.size], last.t) = 1
  /\ Cardinality(Holders(last.size, last.t)) = 1
  /\ last.size = ArrayLen

-----------------------------------------------------------------------------
(* C6 *)

\* A step that assigns address b to Pointer h, which is at another address a that
\* has a record: a's record stays, one lower; b's record is emplaced with
\* refCount 1 or is one higher; no record leaves the list, nothing is deallocated,
\* and b is returned.
AssignRawMoves(h) ==
  LET s == SizeOf(h)
      a == handles[h].addr
      b == last'.t
      list == refContainer[s]
      new == refContainer'[s]
  IN
  (/\ handles[h].live
   /\ last'.op = "assignRaw"
   /\ last'.h = h
   /\ a # b
   /\ Count(list, a) = 1)
  => /\ Count(new, a) = 1
     /\ RefOf(new, a) = RefOf(list, a) - 1
     /\ Count(new, b) = 1
     /\ RefOf(new, b) = IF Count(list, b) = 0 THEN 1 ELSE RefOf(list, b) + 1
     /\ \A c \in Addrs : Count(new, c) >= Count(list, c)
     /\ last'.calls = <<>>
     /\ last'.ret = b
     /\ handles'[h].addr = b

\* A record whose refCount is 0 stays in its list through every step of an
\* operation that does not run collect().
ZeroRecordStays(s, a) ==
  (/\ Count(refContainer[s], a) = 1
   /\ RefOf(refContainer[s], a) = 0
   /\ last'.op \notin SweepOps)
  => Count(refContainer'[s], a) = 1

\* C6: assigning a raw address B to a Pointer at a different address A takes one
\* from A's record, emplaces B's record with refCount 1 or adds one to it, sweeps
\* and deallocates nothing and returns B; A's record, also at refCount 0, is in
\* the list when the assignment returns and until an operation runs collect().
C6_AssignRawReleasesWithoutSweep ==
  [][/\ \A h \in Handles : AssignRawMoves(h)
     /\ \A s \in Sizes, a \in Addrs : ZeroRecordStays(s, a)
    ]_vars

\* A raw assignment has moved the only Pointer of a non-null address to another
\* non-null address: the old record is in the list with refCount 0.
C6_Witness ==
  /\ last.op = "assignRaw"
  /\ last.t # NULL
  /\ \E a \in Addrs \ {NULL, last.t} :
       /\ Count(refContainer[last.size], a) = 1
       /\ RefOf(refContainer[last.size], a) = 0
       /\ Holders(last.size, a) = {}
  /\ RefOf(refContainer[last.size], last.t) = 1

-----------------------------------------------------------------------------
(* C7 *)

\* A step of an operation that runs collect() on list s removes every record
\* that is at refCount 0 before it, and deallocates its address once. (The
\* destructor first takes one from the record of its own address.)
SweepTakesZero(s, a) ==
  (/\ last'.op \in SweepOps
   /\ last'.size = s
   /\ Count(refContainer[s], a) = 1
   /\ RefOf(refContainer[s], a) = 0
   /\ ~(last'.op = "destruct" /\ last'.t = a))
  => /\ Count(refContainer'[s], a) = 0
     /\ CallsFor(last'.calls, a) = 1

\* When an operation that runs collect() has returned, its list holds no record
\* at refCount 0.
NoZeroAfterSweep ==
  last'.op \in SweepOps =>
    \A i \in 1..Len(refContainer'[last'.size]) :
      refContainer'[last'.size][i].refCount # 0

\* C7: a record at refCount 0 is removed, and its address deallocated, by the
\* next collect() of its list, whatever runs it: the destructor of any Pointer
\* of the specialization, a call of collect, or shutdown; so when a destructor or
\* collect has returned the list holds no record at refCount 0.
C7_NextSweepReclaimsZero ==
  [][/\ \A s \in Sizes, a \in Addrs : SweepTakesZero(s, a)
     /\ NoZeroAfterSweep
    ]_vars

\* The destructor of a Pointer has deleted a non-null address other than its own.
C7_Witness ==
  /\ last.op = "destruct"
  /\ ~last.ub
  /\ \E a \in Addrs \ {NULL, last.t} : CallsFor(last.calls, a) = 1
  /\ CallsFor(last.calls, last.t) = 0
  /\ Count(refContainer[last.size], last.t) = 1

-----------------------------------------------------------------------------
(* C8 *)

\* C8: shutdown deallocates every record its list holds when it runs, once each,
\* whatever the refCount and whatever Pointers still live, and leaves the list
\* empty.
C8_TeardownEmptiesRegistry ==
  [][\A s \in Sizes :
       (last'.op = "shutdown" /\ last'.size = s) =>
         /\ refContainer'[s] = <<>>
         /\ \A a \in Addrs : CallsFor(last'.calls, a) = Count(refContainer[s], a)
    ]_vars

\* shutdown has deleted a non-null address that a live Pointer still holds.
C8_Witness ==
  /\ last.op = "shutdown"
  /\ refContainer[last.size] = <<>>
  /\ \E h \in Handles :
       /\ Registered(h)
       /\ SizeOf(h) = last.size
       /\ handles[h].addr # NULL
       /\ CallsFor(last.calls, handles[h].addr) = 1

-----------------------------------------------------------------------------
(* C9 *)

\* The number of registrations of the shutdown of specialization s.
Registrations(fns, s) == Cardinality({i \in 1..Len(fns) : fns[i] = s})

\* C9: the shutdown of a specialization is registered with atexit once, by the
\* first construction of a Pointer of the specialization, and by no later
\* operation: a step registers it iff it constructs (from an address or by
\* default) while first is true, and until the exit handlers run each
\* specialization that has had a Pointer has one registration.
C9_TeardownRegisteredOnce ==
  [][\A s \in Sizes :
       /\ Registrations(atexitFns', s) - Registrations(atexitFns, s)
            = IF last'.op \in {"construct", "default"} /\ last'.size = s /\ first[s]
                THEN 1
                ELSE IF last'.op = "shutdown" /\ last'.size = s THEN -1 ELSE 0
       /\ phase' = "main" =>
            Registrations(atexitFns', s) = IF first'[s] THEN 0 ELSE 1
       /\ first'[s] => \A h \in Handles : SizeOf(h) = s => ~handles'[h].live
    ]_vars

\* A second Pointer of a specialization has been constructed: one registration.
C9_Witness ==
  /\ phase = "main"
  /\ last.op \in {"construct", "copy"}
  /\ Cardinality({h \in Handles : handles[h].live /\ SizeOf(h) = last.size}) >= 2
  /\ Registrations(atexitFns, last.size) = 1

-----------------------------------------------------------------------------
(* C10 *)

\* C10, as stated: a Pointer over the null address has no record and takes part
\* in no counting, so no list ever holds a record whose memPtr is NULL.
C10_NullHasNoRecord ==
  \A s \in Sizes : Count(refContainer[s], NULL) = 0

\* A step that constructs h over NULL, or assigns NULL to h: the list holds one
\* record of NULL, emplaced with refCount 1 or one higher than before (and one
\* lower again when h itself was counted in it).
NullIsRegistered(h) ==
  LET s == SizeOf(h)
      list == refContainer[s]
      new == refContainer'[s]
      own == IF handles[h].live /\ handles[h].addr = NULL THEN 1 ELSE 0
  IN
  (/\ last'.op \in {"construct", "assignRaw"}
   /\ last'.h = h
   /\ last'.t = NULL)
  => /\ Count(new, NULL) = 1
     /\ RefOf(new, NULL) = IF Count(list, NULL) = 0 THEN 1
                           ELSE RefOf(list, NULL) + 1 - own
     /\ handles'[h].addr = NULL

\* A step that destroys h, whose address is NULL and has a record: the record
\* is one lower, or is removed with a deallocation of NULL when that makes 0.
NullIsReleased(h) ==
  LET s == SizeOf(h)
      list == refContainer[s]
      new == refContainer'[s]
  IN
  (/\ Destroys(h)
   /\ handles[h].addr = NULL
   /\ Count(list, NULL) = 1)
  => IF RefOf(list, NULL) = 1
       THEN Count(new, NULL) = 0 /\ CallsFor(last'.calls, NULL) = 1
       ELSE /\ Count(new, NULL) = 1
            /\ RefOf(new, NULL) = RefOf(list, NULL) - 1
            /\ CallsFor(last'.calls, NULL) = 0

\* A step that default-constructs h: the record of the temporary Pointer(NULL) is
\* gone again, so the list holds no record it did not hold, and each record it
\* still holds has the refCount it had.
DefaultLeavesCounts(h) ==
  LET s == SizeOf(h)
      list == refContainer[s]
      new == refContainer'[s]
  IN
  (last'.op = "default" /\ last'.h = h)
  => \A a \in Addrs :
       /\ Count(new, a) <= Count(list, a)
       /\ Count(new, a) = 1 => RefOf(new, a) = RefOf(list, a)

\* C10, amended: the null address is registered and counted like any other.
\* Constructing a Pointer over NULL, or assigning NULL to one, emplaces a record
\* of NULL with refCount 1 or adds one to it; destroying a Pointer at NULL takes
\* one from it and the sweep removes it at 0. Default-constructing alone leaves
\* no new record of NULL and changes no refCount.
C10_NullCountedLikeAnyAddress ==
  [][\A h \in Handles :
       NullIsRegistered(h) /\ NullIsReleased(h) /\ DefaultLeavesCounts(h)]_vars

\* Two Pointers were constructed over NULL: its record counts both.
C10_Witness ==
  /\ last.op = "construct"
  /\ last.t = NULL
  /\ Count(refContainer[last.size], NULL) = 1
  /\ RefOf(refContainer[last.size], NULL) = 2
  /\ Cardinality(Holders(last.size, NULL)) = 2
  /\ \A h \in Holders(last.size, NULL) : Registered(h)

-----------------------------------------------------------------------------
(* C11 *)

\* C11: when the copy constructor, the destructor or the release of
\* operator=(Pointer&) runs for a Pointer whose address has no record (findPtrInfo
\* returns end()), the operation fails fast and leaves the lists unchanged: it
\* modifies no refCount, runs no collect and creates or destroys no Pointer.
C11_AbsentRecordFailsFast ==
  [][last'.ub =>
       /\ phase' = "crashed"
       /\ refContainer' = refContainer
       /\ handles' = handles
    ]_vars

-----------------------------------------------------------------------------
(* C12 *)

\* A step that assigns to Pointer h a Pointer at the address h is at (h itself
\* among them) changes no list and no Pointer and deallocates nothing.
AssignHandleSame(h) ==
  (/\ handles[h].live
   /\ last'.op = "assignHandle"
   /\ last'.h = h
   /\ handles[h].addr = last'.t)
  => /\ refContainer' = refContainer
     /\ handles' = handles
     /\ last'.calls = <<>>

\* A step that assigns to Pointer h, at address a, a Pointer at another address
\* b, both with a record: a's record is one lower and stays, b's is one higher,
\* every other record is as it was, nothing is deallocated, and h has the
\* members of a Pointer that was at b.
AssignHandleMoves(h) ==
  LET s == SizeOf(h)
      a == handles[h].addr
      b == last'.t
      list == refContainer[s]
      new == refContainer'[s]
  IN
  (/\ handles[h].live
   /\ last'.op = "assignHandle"
   /\ last'.h = h
   /\ a # b
   /\ Count(list, a) = 1
   /\ Count(list, b) = 1)
  => /\ Len(new) = Len(list)
     /\ \A i \in 1..Len(list) :
          /\ new[i].memPtr = list[i].memPtr
          /\ new[i].isArray = list[i].isArray
          /\ new[i].arraySize = list[i].arraySize
          /\ new[i].refCount = list[i].refCount
                                 + (IF list[i].memPtr = b THEN 1 ELSE 0)
                                 - (IF list[i].memPtr = a THEN 1 ELSE 0)
     /\ last'.calls = <<>>
     /\ \E rv \in Handles :
          /\ handles[rv].live
          /\ SizeOf(rv) = s
          /\ handles[rv].addr = b
          /\ handles'[h] = handles[rv]
     /\ \A g \in Handles \ {h} : handles'[g] = handles[g]

\* C12: h = other changes nothing when other is h (or is at h's address); when
\* other is at a different address it takes one from the record of h's old
\* address, adds one to the record of other's address, copies addr, isArray and
\* arraySize from other, removes no record and deallocates nothing, also when the
\* old record reaches refCount 0.
C12_AssignHandleMovesOneCount ==
  [][\A h \in Handles : AssignHandleSame(h) /\ AssignHandleMoves(h)]_vars

\* Two Pointers were constructed over two non-null addresses and the first was
\* assigned the second: the first address keeps its record, at refCount 0.
C12_Witness ==
  /\ nOps = 3
  /\ last.op = "assignHandle"
  /\ ~last.ub
  /\ last.t # NULL
  /\ Cardinality(Holders(last.size, last.t)) = 2
  /\ RefOf(refContainer[last.size], last.t) = 2
  /\ \E a \in Addrs \ {NULL, last.t} :
       /\ Count(refContainer[last.size], a) = 1
       /\ RefOf(refContainer[last.size], a) = 0
       /\ Holders(last.size, a) = {}

-----------------------------------------------------------------------------
(* C13 *)

\* The Pointer<Node> slots: those outside Nodes and the members of Nodes.
NodeSlots == NodeHandles \cup Members

\* The members of the Nodes of C.
MembersOf(C) == {Member(a) : a \in C}

\* The live Pointers among slots whose addr is a.
PointersAt(slots, a) == {h \in slots : handles[h].live /\ handles[h].addr = a}

\* The Nodes of C form reference cycles: each is allocated, its member next was
\* assigned and points at a Node of C, each is the next of a Node of C, and each
\* has one record, which counts at least the live Pointers at its address.
Cycle(C) ==
  /\ C # {}
  /\ \A a \in C :
       /\ Alive(a)
       /\ Registered(Member(a))
       /\ handles[Member(a)].addr \in C
       /\ PointersAt(MembersOf(C), a) # {}
       /\ Count(refContainer[0], a) = 1
       /\ RefOf(refContainer[0], a) >= Cardinality(PointersAt(NodeSlots, a))

\* No Pointer outside the Nodes of C holds an address of C.
Isolated(C) ==
  /\ Cycle(C)
  /\ \A a \in C : PointersAt(NodeSlots \ MembersOf(C), a) = {}

\* The step is no run of shutdown and no operation on a member of a Node of C.
OutsideStep(C) ==
  /\ Len(atexitFns') >= Len(atexitFns)
  /\ last'.h \notin MembersOf(C)

\* C13: the records of the Nodes of a reference cycle keep, through every
\* operation of the Pointers outside the cycle, at least the count of the
\* cycle's own Pointers: so once the Pointers outside are destroyed or
\* reassigned no record of the cycle reaches refCount 0, and no collect(), run by
\* a destructor or called, deletes a Node of the cycle or erases its record.
C13_CycleNeverReclaimed ==
  [][\A C \in SUBSET (1..NumAddrs) :
       (Cycle(C) /\ OutsideStep(C)) =>
         \A a \in C :
           /\ handles'[Member(a)] = handles[Member(a)]
           /\ Count(refContainer'[0], a) = 1
           /\ RefOf(refContainer'[0], a) >= Cardinality(PointersAt(MembersOf(C), a))
           /\ RefOf(refContainer'[0], a) >= 1
           /\ CallsFor(last'.calls, a) = 0
    ]_vars

\* The last Pointer outside a cycle of two Nodes was destroyed: its collect()
\* ran, and the two Nodes are allocated with their records at refCount 1.
C13_Witness ==
  /\ phase = "main"
  /\ last.op = "destruct"
  /\ \E C \in SUBSET (1..NumAddrs) :
       /\ Cardinality(C) = 2
       /\ Isolated(C)
       /\ last.t \in C
       /\ \A a \in C : RefOf(refContainer[0], a) = 1

-----------------------------------------------------------------------------
(* C14 *)

\* No list holds two records of one address.
OneRecordPerAddress ==
  \A s \in Sizes, a \in Addrs : Count(refContainer[s], a) <= 1

\* A list grows in a step only by one record, emplaced by Pointer(T*) or
\* operator=(T*) for an address that had none; for an address that has a record,
\* also one at refCount 0, the two emplace nothing.
InsertOnlyWhenAbsent(s) ==
  LET list == refContainer[s]
      new == refContainer'[s]
      registers == last'.op \in {"construct", "assignRaw"} /\ last'.size = s
  IN
  /\ Len(new) > Len(list) =>
       /\ registers
       /\ Len(new) = Len(list) + 1
       /\ Count(list, last'.t) = 0
       /\ new[Len(new)].memPtr = last'.t
  /\ (registers /\ Count(list, last'.t) = 1) =>
       /\ Len(new) = Len(list)
       /\ Count(new, last'.t) = 1
       /\ last'.emplaced = {}

\* C14: in every reachable state a list holds at most one record per address:
\* Pointer(T*) and operator=(T*) emplace a record only when findPtrInfo finds
\* none for the address, and find one also when its refCount is 0.
C14_OneRecordPerAddress ==
  /\ []OneRecordPerAddress
  /\ [][\A s \in Sizes : InsertOnlyWhenAbsent(s)]_vars

\* A Pointer was constructed over a non-null address whose record was at
\* refCount 0: the record, still the only one, now counts the Pointer.
C14_Witness ==
  /\ last.op = "construct"
  /\ last.t # NULL
  /\ last.emplaced = {}
  /\ Len(refContainer[last.size]) >= 2
  /\ Count(refContainer[last.size], last.t) = 1
  /\ RefOf(refContainer[last.size], last.t) = 1
  /\ Holders(last.size, last.t) = {last.h}

-----------------------------------------------------------------------------
(* C15 *)

\* The records of list whose refCount is not 0, in the order of list.
NonZero(list) == SelectSeq(list, LAMBDA d : d.refCount # 0)

\* C15: a call of collect() removes exactly the records at refCount 0, leaves
\* every other record as it was and in the same order, touches no other list,
\* and returns true iff it removed a record.
C15_SweepRemovesExactlyZero ==
  [][\A s \in Sizes :
       (last'.op = "collect" /\ last'.size = s) =>
         /\ refContainer'[s] = NonZero(refContainer[s])
         /\ last'.memfreed <=> (Len(refContainer'[s]) < Len(refContainer[s]))
         /\ Len(last'.calls) = Len(refContainer[s]) - Len(refContainer'[s])
         /\ \A r \in Sizes \ {s} : refContainer'[r] = refContainer[r]
    ]_vars

\* collect() returned true: it removed two records and kept one that is held.
C15_Witness ==
  /\ last.op = "collect"
  /\ last.memfreed
  /\ Len(last.calls) = 2
  /\ Len(refContainer[last.size]) = 1
  /\ refContainer[last.size][1].refCount = 1
  /\ refContainer[last.size][1].memPtr # NULL

-----------------------------------------------------------------------------
(* C16 *)

\* C16: the isArray and arraySize of every live Pointer whose members were set
\* by a constructor or an assignment equal those of the record of its address,
\* whatever the template argument size, negative values included, and both say
\* array iff the size is greater than 0.
C16_HandleMirrorsRecord ==
  \A h \in AllHandles :
    LET list == refContainer[SizeOf(h)]
        p == findPtrInfo(list, handles[h].addr)
    IN
    (Registered(h) /\ p # end(list)) =>
      /\ handles[h].isArray = list[p].isArray
      /\ handles[h].arraySize = list[p].arraySize
      /\ list[p].isArray <=> UnsignedPositive(list[p].arraySize)
      /\ handles[h].isArray <=> UnsignedPositive(handles[h].arraySize)

-----------------------------------------------------------------------------
(* C17 *)

\* The operations C17 speaks of.
CountedOps ==
  {"construct", "copy", "assignRaw", "assignHandle", "destruct", "collect"}

\* Every live Pointer of specialization s had its members set by a constructor
\* or an assignment and its address has one record, and every record of the
\* list counts the live Pointers at its address: so the record of an address a
\* live Pointer holds has refCount >= 1.
Held(s) ==
  /\ \A h \in Handles :
       (handles[h].live /\ SizeOf(h) = s) =>
         /\ Registered(h)
         /\ Count(refContainer[s], handles[h].addr) = 1
         /\ RefOf(refContainer[s], handles[h].addr) >= 1
  /\ \A i \in 1..Len(refContainer[s]) :
       refContainer[s][i].refCount
         = Cardinality(Holders(s, refContainer[s][i].memPtr))

\* The step deallocates no address that a Pointer of s holds when it is done.
NoHeldFreed(s) ==
  \A a \in Addrs :
    (last'.size = s /\ CallsFor(last'.calls, a) > 0) =>
      \A h \in Handles :
        ~(handles'[h].live /\ SizeOf(h) = s /\ handles'[h].addr = a)

\* C17: before shutdown, through every construct, copy, raw or Pointer
\* assignment, destruct and collect, each address a live Pointer holds keeps its
\* record with refCount >= 1, and no step deallocates an address a live Pointer
\* of the list holds: the six operations keep Held, which holds at the start.
C17_NoFreeWhileHeld ==
  [][\A s \in Sizes :
       (Held(s) /\ ~TornDown(s) /\ last'.op \in CountedOps) =>
         /\ Held(s)'
         /\ NoHeldFreed(s)
         /\ last'.size = s => ~last'.ub
    ]_vars

\* A sweep deallocated an address no Pointer holds while two Pointers hold
\* another one: their record is in the list and counts both.
C17_Witness ==
  /\ phase = "main"
  /\ last.op = "collect"
  /\ \E b \in Addrs \ {NULL} : CallsFor(last.calls, b) = 1
  /\ Held(last.size)
  /\ \E a \in Addrs \ {NULL} :
       /\ Cardinality(Holders(last.size, a)) = 2
       /\ RefOf(refContainer[last.size], a) = 2

-----------------------------------------------------------------------------
(* C18 *)

\* Every live Pointer<Node> had its members set by a constructor or an
\* assignment, and the list has one record per held address and every record
\* counts the live Pointers at its address.
AllCounted ==
  /\ \A h \in NodeSlots :
       handles[h].live =>
         Registered(h) /\ Count(refContainer[0], handles[h].addr) = 1
  /\ \A i \in 1..Len(refContainer[0]) :
       refContainer[0][i].refCount
         = Cardinality(PointersAt(NodeSlots, refContainer[0][i].memPtr))

\* C18: collect() is safe when delete re-enters it. From a state where the list
\* counts every Pointer, an operation whose collect() deletes a Node that owns a
\* Pointer<Node> deletes each address at most once, takes no refCount below 0,
\* and returns with no record at refCount 0 left in the list.
C18_ReentrantSweepSafe ==
  [][(AllCounted /\ Len(atexitFns') >= Len(atexitFns)) =>
       /\ \A a \in Addrs \ {NULL} : CallsFor(last'.calls, a) <= 1
       /\ \A i \in 1..Len(refContainer'[0]) : refContainer'[0][i].refCount >= 0
       /\ phase' # "crashed"
       /\ last'.op \in SweepOps =>
            \A i \in 1..Len(refContainer'[0]) : refContainer'[0][i].refCount # 0
    ]_vars

-----------------------------------------------------------------------------
(* C19 *)

\* A step that assigns to Pointer h the address it is at, which has a record:
\* the lists and the Pointers are as before, nothing is deallocated and the
\* address is returned.
AssignRawSame(h) ==
  LET s == SizeOf(h)
      a == handles[h].addr
  IN
  (/\ Registered(h)
   /\ last'.op = "assignRaw"
   /\ last'.h = h
   /\ last'.t = a
   /\ Count(refContainer[s], a) = 1)
  => /\ refContainer' = refContainer
     /\ handles' = handles
     /\ last'.calls = <<>>
     /\ last'.emplaced = {}
     /\ last'.ret = a

\* C19: h = t for the address t that h already holds leaves the list and h's
\* members as they were: the record of t is decremented and incremented again
\* with no collect() between, so it is neither erased nor deallocated, also when
\* h is the only Pointer at t and the count passes through 0.
C19_AssignRawSameAddress == [][\A h \in Handles : AssignRawSame(h)]_vars

\* The only Pointer of a non-null address was assigned that address: its record
\* is in the list with refCount 1.
C19_Witness ==
  /\ nOps = 2
  /\ last.op = "assignRaw"
  /\ last.emplaced = {}
  /\ last.t # NULL
  /\ refContainer[last.size] = <<PtrDetails(last.t, last.size)>>
  /\ Holders(last.size, last.t) = {last.h}
  /\ Registered(last.h)

-----------------------------------------------------------------------------
(* C20 *)

\* The step leaves the list and the first flag of specialization s as they were.
Untouched(s) == refContainer'[s] = refContainer[s] /\ first'[s] = first[s]

\* C20: the lists of distinct specializations are independent: a step of an
\* operation of one specialization (a constructor, an assignment, the destructor,
\* collect or shutdown) leaves the list of every other specialization unchanged,
\* records at refCount 0 included, and makes no deallocate call but for records
\* of its own list.
C20_RegistriesIndependent ==
  [][\A s \in AllSizes :
       s # last'.size =>
         /\ Untouched(s)
         /\ \A a \in Addrs : CallsFor(last'.calls, a) = Removed(last'.size, a)
    ]_vars

\* The destructor of a Pointer<T, ArrayLen> swept its own list, while the list
\* of Pointer<T> keeps a record at refCount 0 that a reassignment left.
C20_Witness ==
  /\ last.op = "destruct"
  /\ last.size = ArrayLen
  /\ Len(last.calls) = 1
  /\ refContainer[ArrayLen] = <<>>
  /\ \E a \in Addrs \ {NULL} :
       /\ Count(refContainer[0], a) = 1
       /\ RefOf(refContainer[0], a) = 0

=============================================================================
